---- MODULE Spec2Model ----
(***************************************************************************)
(* A model of src/index.js, the Gridsome source plugin NotionAPIPlugin:    *)
(* the two pagination loops (getPages, getBlocks), the loadSource callback *)
(* that renders and registers the fetched records, and the pure rendering  *)
(* functions (stylize, blockToString, getNotionPageTitle,                  *)
(* getNotionPageProperties, notionBlockToMarkdown).                        *)
(*                                                                         *)
(* A JavaScript string is a sequence of one-character strings, so that     *)
(* startsWith, endsWith, repeat and concat are computed as the code        *)
(* computes them.  A JavaScript object is a record; a property that is     *)
(* absent is a field that is not in the record's DOMAIN.                   *)
(***************************************************************************)
EXTENDS Integers, Sequences, FiniteSets, TLC

VARIABLES
    main,       \* position of the loadSource callback (src/index.js:21-55)
    frames,     \* the activations of getPages/getBlocks, in order of creation
    inflight,   \* the fetch requests that have been sent and not yet settled
    log,        \* history: requests, responses, failures and returns, in order
    nextId,     \* the remote source's supply of fresh item identifiers
    fails,      \* number of failed requests so far
    pages,      \* the value `pages` of the loadSource callback (line 24)
    nodes,      \* what notionRecords.addNode has been given, in order
    fn,         \* the pure function applied in a rendering run
    arg,        \* its argument
    options,    \* the plugin options: lowerTitleLevel, propsToFrontmatter, notionNodeType
    ret,        \* its result
    done        \* whether it has been applied

fetchVars == <<main, frames, inflight, log, nextId, fails, pages, nodes>>
pureVars == <<fn, arg, options, ret, done>>
vars == <<main, frames, inflight, log, nextId, fails, pages, nodes, fn, arg, options, ret, done>>

----------------------------------------------------------------------------
(* Bounds of the model *)

\* number of requests sent in all
MaxRequests == 5
\* number of items the remote source hands out in all
MaxItems == 3
\* number of requests that fail
MaxFails == 1

----------------------------------------------------------------------------
(* The options and strings *)

\* static defaultOptions(), without the credentials, which no step reads
defaultOptions ==
    [propsToFrontmatter |-> TRUE, lowerTitleLevel |-> TRUE, notionNodeType |-> "NotionRecords"]

\* the backtick character, U+0060, as one character
Backtick == "U+0060"

\* the default value of the depth parameter
DefaultDepth == 0

EOL_MD == <<"\n">>

RECURSIVE repeat(_, _)
\* String.prototype.repeat
repeat(s, n) == IF n <= 0 THEN <<>> ELSE s \o repeat(s, n - 1)

\* String.prototype.startsWith
startsWith(s, p) == Len(s) >= Len(p) /\ SubSeq(s, 1, Len(p)) = p

\* String.prototype.endsWith
endsWith(s, p) == Len(s) >= Len(p) /\ SubSeq(s, Len(s) - Len(p) + 1, Len(s)) = p

\* object spread {...a, ...b}: the fields of b win
spread(a, b) ==
    [k \in (DOMAIN a) \cup (DOMAIN b) |-> IF k \in DOMAIN b THEN b[k] ELSE a[k]]

----------------------------------------------------------------------------
(* The annotation pipeline: get stylize()                                  *)
(* A link is null, an object {url} or a string; it is encoded as           *)
(* [kind |-> "null" | "object" | "string", url |-> the url or the string]. *)

\* pick(key)(obj) used as a predicate: undefined, null and false are falsy
pick(key, obj) ==
    /\ key \in DOMAIN obj
    /\ IF key = "link" THEN obj[key].kind # "null" ELSE obj[key] = TRUE

returnOrigin(x) == x

\* annotateEquation with the dollar signs forgotten
annotateEquation_noDollar(data) ==
    IF pick("equation", data)
    THEN [content |-> data.content]
    ELSE returnOrigin(data)

annotateEquation(data) ==
    IF pick("equation", data)
    THEN [content |-> <<"$">> \o data.content \o <<"$">>]
    ELSE returnOrigin(data)

annotateBold(data) ==
    IF pick("bold", data)
    THEN [content |-> <<"*", "*">> \o data.content \o <<"*", "*">>]
    ELSE returnOrigin(data)

annotateItalic(data) ==
    IF pick("italic", data)
    THEN [content |-> <<"_">> \o data.content \o <<"_">>]
    ELSE returnOrigin(data)

annotateCode(data) ==
    IF pick("code", data)
    THEN [content |-> <<Backtick>> \o data.content \o <<Backtick>>]
    ELSE returnOrigin(data)

annotateStrikethrough(data) ==
    IF pick("strikethrough", data)
    THEN [content |-> <<"~", "~">> \o data.content \o <<"~", "~">>]
    ELSE returnOrigin(data)

annotateUnderline(data) ==
    IF pick("underline", data)
    THEN [content |-> <<"<", "u", ">">> \o data.content \o <<"<", "/", "u", ">">>]
    ELSE returnOrigin(data)

\* the color of a span; a span without one has the color undefined
colorOf(data) == IF "color" \in DOMAIN data THEN data.color ELSE <<"u", "n", "d", "e", "f", "i", "n", "e", "d">>

annotateColor(data) ==
    IF colorOf(data) # <<"d", "e", "f", "a", "u", "l", "t">>
    THEN [content |->
            <<"<", "s", "p", "a", "n", " ", "n", "o", "t", "i", "o", "n", "-",
              "c", "o", "l", "o", "r", "=", "\"">>
            \o colorOf(data) \o <<"\"", ">">> \o data.content
            \o <<"<", "/", "s", "p", "a", "n", ">">>]
    ELSE returnOrigin(data)

\* link.url ? link.url : link
annotateLink(data) ==
    IF pick("link", data)
    THEN [content |-> <<"[">> \o data.content \o <<"]", "(">> \o data.link.url \o <<")">>]
    ELSE returnOrigin(data)

\* pipeExtend(f) of or-pipets: the argument extended with the result of f,
\* which is given here as already applied, extension = f(data)
pipeExtend(data, extension) == spread(data, extension)

\* stylize.process(data), with the steps reordered so that the link is made first
stylize_linkFirst(data) ==
    LET d1 == pipeExtend(data, annotateLink(data))
        d2 == pipeExtend(d1, annotateBold(d1))
        d3 == pipeExtend(d2, annotateItalic(d2))
        d4 == pipeExtend(d3, annotateCode(d3))
        d5 == pipeExtend(d4, annotateStrikethrough(d4))
        d6 == pipeExtend(d5, annotateUnderline(d5))
        d7 == pipeExtend(d6, annotateColor(d6))
    IN pipeExtend(d7, annotateEquation(d7))

\* stylize.process(data)
stylize(data) ==
    LET d1 == pipeExtend(data, annotateBold(data))
        d2 == pipeExtend(d1, annotateItalic(d1))
        d3 == pipeExtend(d2, annotateCode(d2))
        d4 == pipeExtend(d3, annotateStrikethrough(d3))
        d5 == pipeExtend(d4, annotateUnderline(d4))
        d6 == pipeExtend(d5, annotateColor(d5))
        d7 == pipeExtend(d6, annotateLink(d6))
    IN pipeExtend(d7, annotateEquation(d7))

----------------------------------------------------------------------------
(* The inline text renderer *)

\* the arrow of a date range, U+2192, as one character
Arrow == "U+2192"

\* the body of the reducer of blockToString
blockToStringStep(text, textBlock) ==
    LET data == spread(IF "text" \in DOMAIN textBlock THEN textBlock.text ELSE <<>>,
                       textBlock.annotations)
        eq == IF textBlock.type = "equation"
              THEN spread(data, [content |-> textBlock.equation.expression,
                                 equation |-> TRUE])
              ELSE data
        dateContent ==
            IF textBlock.mention.date.end # <<>>
            THEN textBlock.mention.date.start \o <<" ", Arrow, " ">>
                 \o textBlock.mention.date.start
            ELSE textBlock.mention.date.start
        men == IF textBlock.type = "mention"
               THEN CASE textBlock.mention.type = "user" ->
                            spread(eq, [content |-> textBlock.plain_text])
                      [] textBlock.mention.type = "date" ->
                            spread(eq, [content |->
                                <<"<", "t", "i", "m", "e", " ", "d", "a", "t", "e",
                                  "t", "i", "m", "e", "=", "\"">>
                                \o dateContent \o <<"\"", ">">> \o dateContent
                                \o <<"<", "/", "t", "i", "m", "e", ">">>])
                      [] textBlock.mention.type = "page" ->
                            spread(eq, [content |-> textBlock.plain_text])
                      [] OTHER -> eq
               ELSE eq
    IN text \o stylize(men).content

RECURSIVE blockToString(_)
\* blockToString(textBlocks): the reduction, left to right, from ""
blockToString(textBlocks) ==
    IF textBlocks = <<>> THEN <<>>
    ELSE blockToStringStep(blockToString(SubSeq(textBlocks, 1, Len(textBlocks) - 1)),
                           textBlocks[Len(textBlocks)])

----------------------------------------------------------------------------
(* The property normalizer and the title *)

\* the identifiers bound at module scope: the four imports and the class
ModuleScope == {"YAML", "fetch", "errorMessage", "pipeExtend", "NotionAPIPlugin"}

\* Object.keys(page.properties) whose entry is not title-typed
nonTitleKeys(page) == {key \in DOMAIN page.properties : page.properties[key].type # "title"}

\* the entry the reducer stores under key, given the property as it then is
propertyEntry(prop, key) ==
    [id |-> prop.id, key |-> key, value |-> prop[prop.type], type |-> prop.type]

\* getNotionPageProperties(page).  The reducer calls the bare identifier
\* blockToString on a rich_text entry; an identifier that is not bound
\* raises a ReferenceError, which ends the reduction.  The result does not
\* depend on the order of the keys.
getNotionPageProperties(page) ==
    IF /\ \E key \in nonTitleKeys(page) : page.properties[key].type = "rich_text"
       /\ "blockToString" \notin ModuleScope
    THEN [threw |-> TRUE, error |-> "ReferenceError", value |-> <<>>]
    ELSE [threw |-> FALSE, error |-> "",
          value |-> [key \in nonTitleKeys(page) |->
            LET prop == page.properties[key]
            IN propertyEntry(IF prop.type = "rich_text"
                             THEN [prop EXCEPT !.rich_text = blockToString(prop.rich_text)]
                             ELSE prop, key)]]

\* getNotionPageTitle(page); the records of the model have one title-typed property
getNotionPageTitle(page) ==
    LET titleProperty == CHOOSE key \in DOMAIN page.properties :
                            page.properties[key].type = "title"
    IN blockToString(page.properties[titleProperty].title)

----------------------------------------------------------------------------
(* The markdown emitter *)

HeadingTypes == {"heading_1", "heading_2", "heading_3"}

\* Number(childBlock.type.split("_")[1])
headingLevel(type) ==
    CASE type = "heading_1" -> 1 [] type = "heading_2" -> 2 [] type = "heading_3" -> 3

\* the test isCodeSnippetLine, which reads the block whose children are reduced
isCodeSnippetLine(block) ==
    /\ "paragraph" \in DOMAIN block
    /\ "text" \in DOMAIN block.paragraph
    /\ Len(block.paragraph.text) > 0
    /\ block.paragraph.text[1].plain_text # <<>>
    /\ startsWith(block.paragraph.text[1].plain_text, <<Backtick, Backtick, Backtick>>)

\* the indentation with the depth counted in single spaces
indentation_single(depth) == repeat(<<" ">>, depth)

\* the indentation put before the nested children: "  ".repeat(depth)
indentation(depth) == repeat(<<" ", " ">>, depth)

\* what one child block adds to the accumulator, given its rendered children
emitBlock(acc, block, childBlock, lowerTitleLevel, childBlocksString) ==
    CASE childBlock.type = "paragraph" ->
            LET p == blockToString(childBlock.paragraph.text)
                isTableRow == startsWith(p, <<"|">>) /\ endsWith(p, <<"|">>)
            IN acc \o p
                   \o (IF isTableRow \/ isCodeSnippetLine(block)
                       THEN EOL_MD ELSE EOL_MD \o EOL_MD)
                   \o childBlocksString
      [] childBlock.type \in HeadingTypes ->
            acc \o EOL_MD
                \o (IF lowerTitleLevel THEN <<"#">> ELSE <<>>)
                \o repeat(<<"#">>, headingLevel(childBlock.type))
                \o <<" ">>
                \o blockToString(childBlock[childBlock.type].text)
                \o EOL_MD
                \o childBlocksString
      [] childBlock.type = "to_do" ->
            acc \o <<"-", " ", "[">>
                \o (IF childBlock.to_do.checked THEN <<"x">> ELSE <<" ">>)
                \o <<"]", " ">>
                \o blockToString(childBlock.to_do.text)
                \o EOL_MD
                \o childBlocksString
      [] childBlock.type = "bulleted_list_item" ->
            acc \o <<"*", " ">>
                \o blockToString(childBlock.bulleted_list_item.text)
                \o EOL_MD
                \o childBlocksString
      [] childBlock.type = "numbered_list_item" ->
            acc \o <<"1", ".", " ">>
                \o blockToString(childBlock.numbered_list_item.text)
                \o EOL_MD
                \o childBlocksString
      [] childBlock.type = "toggle" ->
            acc \o <<"<", "d", "e", "t", "a", "i", "l", "s", ">",
                     "<", "s", "u", "m", "m", "a", "r", "y", ">">>
                \o blockToString(childBlock.toggle.text)
                \o <<"<", "/", "s", "u", "m", "m", "a", "r", "y", ">">>
                \o childBlocksString
                \o <<"<", "/", "d", "e", "t", "a", "i", "l", "s", ">">>
      [] childBlock.type = "unsupported" ->
            acc \o <<"<", "!", "-", "-", " ", "T", "h", "i", "s", " ", "b", "l", "o",
                     "c", "k", " ", "i", "s", " ", "n", "o", "t", " ", "s", "u", "p",
                     "p", "o", "r", "t", "e", "d", " ", "b", "y", " ", "N", "o", "t",
                     "i", "o", "n", " ", "A", "P", "I", " ", "y", "e", "t", ".", " ",
                     "-", "-", ">">>
                \o EOL_MD
                \o childBlocksString
      [] OTHER -> acc

RECURSIVE notionBlockToMarkdown(_, _, _), reduceChildren(_, _, _, _)
\* the reduction of the first n children of the block, left to right, from ""
reduceChildren(block, lowerTitleLevel, depth, n) ==
    IF n = 0 THEN <<>>
    ELSE LET acc == reduceChildren(block, lowerTitleLevel, depth, n - 1)
             childBlock == block.children[n]
             childBlocksString ==
                IF childBlock.has_children
                THEN indentation(depth)
                     \o <<>>
                     \o notionBlockToMarkdown(childBlock, lowerTitleLevel, depth + 2)
                     \o EOL_MD
                ELSE <<>>
         IN emitBlock(acc, block, childBlock, lowerTitleLevel, childBlocksString)

\* notionBlockToMarkdown(block, lowerTitleLevel, depth)
notionBlockToMarkdown(block, lowerTitleLevel, depth) ==
    reduceChildren(block, lowerTitleLevel, depth, Len(block.children))

----------------------------------------------------------------------------
(* The inputs of the rendering runs *)

NoLink == [kind |-> "null", url |-> <<>>]
Links == {NoLink, [kind |-> "object", url |-> <<"u">>], [kind |-> "string", url |-> <<"u">>]}
Colors == {<<"d", "e", "f", "a", "u", "l", "t">>, <<"r", "e", "d">>}

Annotations ==
    [bold : BOOLEAN, italic : BOOLEAN, code : BOOLEAN, strikethrough : BOOLEAN,
     underline : BOOLEAN, color : Colors]

Plain ==
    [bold |-> FALSE, italic |-> FALSE, code |-> FALSE, strikethrough |-> FALSE,
     underline |-> FALSE, color |-> <<"d", "e", "f", "a", "u", "l", "t">>]

\* a span of type text
textSpan(content, link, annotations) ==
    [type |-> "text", text |-> [content |-> content, link |-> link],
     annotations |-> annotations, plain_text |-> content]

\* an unstyled span of type text
plainSpan(content) == textSpan(content, NoLink, Plain)

TextSpans == {textSpan(<<"x">>, l, a) : l \in Links, a \in Annotations}

\* spans of type equation; the remote source gives them no text object, and
\* the renderer also accepts one that has it
EquationSpans ==
    {[type |-> "equation", equation |-> [expression |-> <<"e">>],
      annotations |-> a, plain_text |-> <<"e">>] : a \in Annotations}
    \cup
    {[type |-> "equation", equation |-> [expression |-> <<"e">>],
      text |-> [content |-> <<"t">>, link |-> l],
      annotations |-> a, plain_text |-> <<"e">>] :
        l \in Links \ {NoLink}, a \in {Plain, [Plain EXCEPT !.bold = TRUE]}}

MentionSpans ==
    {[type |-> "mention", mention |-> m, annotations |-> a, plain_text |-> <<"@", "n">>] :
        m \in {[type |-> "user"], [type |-> "page"],
               [type |-> "date", date |-> [start |-> <<"d", "1">>, end |-> <<>>]],
               [type |-> "date", date |-> [start |-> <<"d", "1">>, end |-> <<"d", "2">>]]},
        a \in {Plain, [Plain EXCEPT !.italic = TRUE]}}

Spans == TextSpans \cup EquationSpans \cup MentionSpans

\* a few spans, for the sequences of more than one span
FewSpans ==
    {plainSpan(<<"x">>), plainSpan(<<"y">>),
     textSpan(<<"x">>, NoLink, [Plain EXCEPT !.bold = TRUE]),
     [type |-> "equation", equation |-> [expression |-> <<"e">>],
      annotations |-> Plain, plain_text |-> <<"e">>]}

SpanSeqs == {<<>>} \cup {<<a>> : a \in Spans} \cup {<<a, b>> : a \in FewSpans, b \in FewSpans}

\* the objects stylize.process is given: a content, the style flags, a color,
\* a link, and the equation mark when blockToString has set it
StylizeInputs ==
    {spread(spread([content |-> <<"x">>, link |-> l], a), e) :
        l \in Links, a \in Annotations, e \in {<<>>, [equation |-> TRUE]}}

\* the typed properties of a record, one key for each type
TitleProp == [id |-> "t", type |-> "title", title |-> <<plainSpan(<<"H">>), plainSpan(<<"i">>)>>]
RichTextProps ==
    {[id |-> "r", type |-> "rich_text", rich_text |-> t] :
        t \in {<<>>, <<plainSpan(<<"x">>)>>,
               <<textSpan(<<"x">>, NoLink, [Plain EXCEPT !.bold = TRUE]), plainSpan(<<"y">>)>>}}
UrlProp == [id |-> "u", type |-> "url", url |-> <<"h">>]
CheckboxProps == {[id |-> "c", type |-> "checkbox", checkbox |-> b] : b \in BOOLEAN}

PropertyMaps ==
    {[Name |-> TitleProp]}
    \cup {[Name |-> TitleProp, Note |-> r] : r \in RichTextProps}
    \cup {[Name |-> TitleProp, Link |-> UrlProp]}
    \cup {[Name |-> TitleProp, Done |-> c] : c \in CheckboxProps}
    \cup {[Name |-> TitleProp, Link |-> UrlProp, Done |-> c] : c \in CheckboxProps}
    \cup {[Name |-> TitleProp, Note |-> r, Link |-> UrlProp] : r \in RichTextProps}
    \cup {[Name |-> TitleProp, Note |-> r, Link |-> UrlProp, Done |-> c] :
            r \in RichTextProps, c \in CheckboxProps}

PropertyPages == {[id |-> "p", properties |-> m] : m \in PropertyMaps}

\* the text of a paragraph: plain, a table row, a code fence
ParagraphTexts ==
    {<<plainSpan(<<"x">>)>>, <<plainSpan(<<"|", "x", "|">>)>>,
     <<plainSpan(<<Backtick, Backtick, Backtick>>)>>}

\* blocks without children, as the remote source lists them
LeafBlocks ==
    {[type |-> "paragraph", has_children |-> FALSE, paragraph |-> [text |-> t]] :
        t \in ParagraphTexts}
    \cup {[type |-> "heading_2", has_children |-> FALSE,
           heading_2 |-> [text |-> <<plainSpan(<<"h">>)>>]]}
    \cup {[type |-> "to_do", has_children |-> FALSE,
           to_do |-> [text |-> <<plainSpan(<<"d">>)>>, checked |-> c]] : c \in BOOLEAN}
    \cup {[type |-> "bulleted_list_item", has_children |-> FALSE,
           bulleted_list_item |-> [text |-> <<plainSpan(<<"b">>)>>]]}
    \cup {[type |-> "numbered_list_item", has_children |-> FALSE,
           numbered_list_item |-> [text |-> <<plainSpan(<<"n">>)>>]]}
    \cup {[type |-> "toggle", has_children |-> FALSE,
           toggle |-> [text |-> <<plainSpan(<<"g">>)>>]]}
    \cup {[type |-> "unsupported", has_children |-> FALSE]}
    \cup {[type |-> "image", has_children |-> FALSE]}

\* the children lists of the trees: one block, or two paragraphs
ChildLists(S) ==
    {<<c>> : c \in S}
    \cup {<<a, b>> : a, b \in {l \in LeafBlocks : l.type = "paragraph"}}

\* the block with its children fetched and attached
withChildren(block, children) ==
    spread(block, [has_children |-> TRUE, children |-> children])

\* nesting of the block trees given to the emitter
MaxNest == 2

RECURSIVE Trees(_)
\* the blocks nested at most k deep
Trees(k) ==
    IF k = 0 THEN LeafBlocks
    ELSE LET T == Trees(k - 1)
         IN T \cup {withChildren(l, c) : l \in LeafBlocks, c \in ChildLists(T)}

\* the records given to the emitter
MarkdownPages == {[id |-> "p", children |-> c] : c \in ChildLists(Trees(MaxNest))}

----------------------------------------------------------------------------
(* The rendering runs: one pure function applied to one input *)

FetchIdle ==
    /\ main = "idle"
    /\ frames = <<>>
    /\ inflight = {}
    /\ log = <<>>
    /\ nextId = 1
    /\ fails = 0
    /\ pages = <<>>
    /\ nodes = <<>>

InitPure ==
    /\ FetchIdle
    /\ \/ fn = "stylize" /\ arg \in StylizeInputs /\ options = defaultOptions
       \/ fn = "blockToString" /\ arg \in SpanSeqs /\ options = defaultOptions
       \/ fn = "getNotionPageTitle" /\ arg \in PropertyPages /\ options = defaultOptions
       \/ fn = "getNotionPageProperties" /\ arg \in PropertyPages /\ options = defaultOptions
       \/ /\ fn = "notionBlockToMarkdown"
          /\ arg \in MarkdownPages
          /\ \E l \in BOOLEAN : options = [defaultOptions EXCEPT !.lowerTitleLevel = l]
    /\ ret = <<>>
    /\ done = FALSE

Apply(f, value) ==
    /\ fn = f
    /\ ~done
    /\ ret' = value
    /\ done' = TRUE
    /\ UNCHANGED <<fn, arg, options>>
    /\ UNCHANGED fetchVars

CallStylize == Apply("stylize", stylize(arg).content)

CallBlockToString == Apply("blockToString", blockToString(arg))

CallGetNotionPageTitle == Apply("getNotionPageTitle", getNotionPageTitle(arg))

CallGetNotionPageProperties == Apply("getNotionPageProperties", getNotionPageProperties(arg))

CallNotionBlockToMarkdown ==
    Apply("notionBlockToMarkdown",
          notionBlockToMarkdown(arg, options.lowerTitleLevel, DefaultDepth))

NextPure ==
    \/ CallStylize
    \/ CallBlockToString
    \/ CallGetNotionPageTitle
    \/ CallGetNotionPageProperties
    \/ CallNotionBlockToMarkdown

SpecPure == InitPure /\ [][NextPure]_vars

----------------------------------------------------------------------------
(* The remote source.  A listing is served page by page: a request without *)
(* a cursor is answered with page 1, and a request with cursor c with page *)
(* c; the answer carries has_more and, when has_more, the next cursor.     *)
(* What a page holds is the choice of the remote source.                   *)

\* a block as the children endpoint lists it
remoteBlock(id, has_children) ==
    [id |-> id, has_children |-> has_children, type |-> "paragraph",
     paragraph |-> [text |-> <<plainSpan(<<"x">>)>>]]

\* a record as the database query lists it, with or without a rich_text property
remoteRecord(id, rich) ==
    [id |-> id, archived |-> FALSE, created_time |-> "t0", last_edited_time |-> "t1",
     properties |-> IF rich
                    THEN [Name |-> TitleProp,
                          Note |-> [id |-> "r", type |-> "rich_text",
                                    rich_text |-> <<plainSpan(<<"x">>)>>]]
                    ELSE [Name |-> TitleProp]]

\* the page number a request with this cursor asks for
pageOf(cursor) == IF cursor = 0 THEN 1 ELSE cursor

\* the answers the remote source can give to a request of the frame
Answers(frame, cursor) ==
    {[results |-> [k \in 1..n |->
                    IF frame.fn = "getPages"
                    THEN remoteRecord(nextId + k - 1, k \in marked)
                    ELSE remoteBlock(nextId + k - 1, k \in marked)],
      has_more |-> more,
      next_cursor |-> IF more THEN pageOf(cursor) + 1 ELSE 0] :
        n \in 0..(MaxItems - (nextId - 1)),
        marked \in SUBSET (1..(MaxItems - (nextId - 1))),
        more \in BOOLEAN}

----------------------------------------------------------------------------
(* The fetch phase: getPages and getBlocks.  A frame is one activation of  *)
(* either; it runs from one await to the next.                             *)
(*   pc = "while"     at the test of the while loop                        *)
(*   pc = "fetching"  awaiting fetch(...).then(res => res.json())          *)
(*   pc = "for"       at the test of the for loop over result.results      *)
(*   pc = "awaiting"  awaiting the getBlocks call made for results[i]      *)
(*   pc = "returned"  after the return                                     *)

NoResult == [results |-> <<>>, has_more |-> FALSE, next_cursor |-> 0]

\* the local variables of a call as its body starts
newFrame(f, id, parent, depth) ==
    [fn |-> f, id |-> id, parent |-> parent, depth |-> depth,
     hasMore |-> TRUE, startCursor |-> 0, body |-> 0, acc |-> <<>>,
     pc |-> "while", result |-> NoResult, i |-> 0]

Last(seq) == seq[Len(seq)]

\* the cursor the next request of the frame carries: body.start_cursor of
\* getPages, which stays set once it is set, and the start_cursor query
\* parameter of getBlocks
cursorSent(frame) ==
    IF frame.fn = "getPages"
    THEN (IF frame.startCursor # 0 THEN frame.startCursor ELSE frame.body)
    ELSE frame.startCursor

\* the catch clause of getPages with the loop left on an error
catchPages_exit(frame) == [frame EXCEPT !.pc = "while", !.hasMore = FALSE]

\* the catch clause of getPages: the error message is logged
catchPages(frame) == [frame EXCEPT !.pc = "while"]

\* the catch clause of getBlocks with the loop left on an error
catchBlocks_exit(frame) == [frame EXCEPT !.pc = "while", !.hasMore = FALSE]

\* the catch clause of getBlocks: the error message is logged
catchBlocks(frame) == [frame EXCEPT !.pc = "while"]

\* the caller of getBlocks going on without awaiting the call
awaitCall_detached(frame) == [frame EXCEPT !.i = @ + 1]

\* await this.getBlocks(...): the caller is suspended until the call returns
awaitCall(frame) == [frame EXCEPT !.pc = "awaiting"]

\* the assignment of the children left out
attachBlockChildren_skip(childBlock, children) == childBlock

\* childBlock.children = (the value of the getBlocks call)
attachBlockChildren(childBlock, children) == spread(childBlock, [children |-> children])

\* page.children = (the value of the getBlocks call)
attachPageChildren(page, children) == spread(page, [children |-> children])

\* the end of an iteration of getBlocks with the page put before the earlier ones
accumulate_prepend(frame) ==
    [frame EXCEPT !.acc = frame.result.results \o @,
                  !.startCursor = frame.result.next_cursor,
                  !.hasMore = frame.result.has_more,
                  !.pc = "while"]

\* the end of an iteration of getBlocks: the page is appended and the
\* cursor and the has-more flag are taken from the response
accumulate(frame) ==
    [frame EXCEPT !.acc = @ \o frame.result.results,
                  !.startCursor = frame.result.next_cursor,
                  !.hasMore = frame.result.has_more,
                  !.pc = "while"]

\* the number of requests sent so far
requestsSent == Len(SelectSeq(log, LAMBDA e : e.ev = "req"))

\* the identifiers of a list of items
ids(items) == [k \in 1..Len(items) |-> items[k].id]

InitFetch ==
    /\ main = "start"
    /\ frames = <<>>
    /\ inflight = {}
    /\ log = <<>>
    /\ nextId = 1
    /\ fails = 0
    /\ pages = <<>>
    /\ nodes = <<>>

Init ==
    /\ InitFetch
    /\ fn = "loadSource"
    /\ arg = <<>>
    /\ options = defaultOptions
    /\ ret = <<>>
    /\ done = FALSE

\* the loadSource callback up to its await: addCollection, then getPages is called
LoadSource ==
    /\ main = "start"
    /\ main' = "await_getPages"
    /\ frames' = <<newFrame("getPages", 0, 0, 0)>>
    /\ UNCHANGED <<inflight, log, nextId, fails, pages, nodes>>
    /\ UNCHANGED pureVars

\* while (hasMore), hasMore true: the request is built and sent
Request(f) ==
    LET frame == frames[f]
        cursor == cursorSent(frame)
    IN /\ frame.pc = "while"
       /\ frame.hasMore
       /\ requestsSent < MaxRequests
       /\ frames' = [frames EXCEPT ![f] =
                [frame EXCEPT !.pc = "fetching",
                              !.body = IF frame.fn = "getPages" THEN cursor ELSE @]]
       /\ inflight' = inflight \cup {[frame |-> f, id |-> frame.id, cursor |-> cursor]}
       /\ log' = Append(log, [ev |-> "req", frame |-> f, id |-> frame.id, cursor |-> cursor])
       /\ UNCHANGED <<main, nextId, fails, pages, nodes>>
       /\ UNCHANGED pureVars

\* the response arrives and parses: getPages takes the cursor and the
\* has-more flag at once, getBlocks at the end of the iteration
Respond(f) ==
    \E r \in inflight :
        /\ r.frame = f
        /\ frames[f].pc = "fetching"
        /\ \E a \in Answers(frames[f], r.cursor) :
            /\ frames' = [frames EXCEPT ![f] =
                    IF frames[f].fn = "getPages"
                    THEN [frames[f] EXCEPT !.result = a, !.i = 1, !.pc = "for",
                                           !.startCursor = a.next_cursor,
                                           !.hasMore = a.has_more]
                    ELSE [frames[f] EXCEPT !.result = a, !.i = 1, !.pc = "for"]]
            /\ nextId' = nextId + Len(a.results)
            /\ log' = Append(log, [ev |-> "ok", frame |-> f, items |-> ids(a.results),
                                   has_more |-> a.has_more, next_cursor |-> a.next_cursor,
                                   parents |-> {k \in 1..Len(a.results) :
                                                  frames[f].fn = "getBlocks"
                                                  /\ a.results[k].has_children}])
        /\ inflight' = inflight \ {r}
        /\ UNCHANGED <<main, fails, pages, nodes>>
        /\ UNCHANGED pureVars

\* the fetch is rejected, or the body of the response does not parse: the
\* rest of the try block is skipped and the catch clause runs
Fail(f) ==
    \E r \in inflight :
        /\ r.frame = f
        /\ frames[f].pc = "fetching"
        /\ fails < MaxFails
        /\ fails' = fails + 1
        /\ frames' = [frames EXCEPT ![f] =
                IF frames[f].fn = "getPages" THEN catchPages(frames[f])
                ELSE catchBlocks(frames[f])]
        /\ inflight' = inflight \ {r}
        /\ log' = Append(log, [ev |-> "fail", frame |-> f])
        /\ UNCHANGED <<main, nextId, pages, nodes>>
        /\ UNCHANGED pureVars

\* one iteration of the for loop up to its await, or to its end when
\* getBlocks meets a block without children
ForStep(f) ==
    LET frame == frames[f]
        item == frame.result.results[frame.i]
    IN /\ frame.pc = "for"
       /\ frame.i <= Len(frame.result.results)
       /\ IF frame.fn = "getPages" \/ item.has_children
          THEN frames' = Append([frames EXCEPT ![f] = awaitCall(frame)],
                                newFrame("getBlocks", item.id, f,
                                         IF frame.fn = "getPages" THEN 0 ELSE frame.depth + 1))
          ELSE frames' = [frames EXCEPT ![f] = [frame EXCEPT !.i = @ + 1]]
       /\ UNCHANGED <<main, inflight, log, nextId, fails, pages, nodes>>
       /\ UNCHANGED pureVars

\* the for loop is over: getBlocks accumulates the page and takes the
\* cursor; both go back to the test of the while loop
ForEnd(f) ==
    LET frame == frames[f]
    IN /\ frame.pc = "for"
       /\ frame.i > Len(frame.result.results)
       /\ frames' = [frames EXCEPT ![f] =
                IF frame.fn = "getPages" THEN [frame EXCEPT !.pc = "while"]
                ELSE accumulate(frame)]
       /\ UNCHANGED <<main, inflight, log, nextId, fails, pages, nodes>>
       /\ UNCHANGED pureVars

\* while (hasMore), hasMore falsy: getBlocks returns blockContent to the
\* awaiting caller, which attaches it (and, in getPages, pushes the page)
\* and goes on with its for loop
ReturnBlocks(f) ==
    LET frame == frames[f]
        p == frame.parent
        caller == frames[p]
        item == caller.result.results[caller.i]
    IN /\ frame.fn = "getBlocks"
       /\ frame.pc = "while"
       /\ ~frame.hasMore
       /\ caller.pc = "awaiting"
       /\ frames' = [frames EXCEPT
            ![f] = [frame EXCEPT !.pc = "returned"],
            ![p] = IF caller.fn = "getPages"
                   THEN [caller EXCEPT
                            !.result.results[caller.i] = attachPageChildren(item, frame.acc),
                            !.acc = Append(@, attachPageChildren(item, frame.acc)),
                            !.i = @ + 1, !.pc = "for"]
                   ELSE [caller EXCEPT
                            !.result.results[caller.i] = attachBlockChildren(item, frame.acc),
                            !.i = @ + 1, !.pc = "for"]]
       /\ log' = Append(log, [ev |-> "ret", frame |-> f, value |-> ids(frame.acc)])
       /\ UNCHANGED <<main, inflight, nextId, fails, pages, nodes>>
       /\ UNCHANGED pureVars

\* while (hasMore), hasMore falsy: getPages returns pages to loadSource
ReturnPages(f) ==
    LET frame == frames[f]
    IN /\ frame.fn = "getPages"
       /\ frame.pc = "while"
       /\ ~frame.hasMore
       /\ main = "await_getPages"
       /\ frames' = [frames EXCEPT ![f] = [frame EXCEPT !.pc = "returned"]]
       /\ pages' = frame.acc
       /\ main' = "forEach"
       /\ log' = Append(log, [ev |-> "ret", frame |-> f, value |-> ids(frame.acc)])
       /\ UNCHANGED <<inflight, nextId, fails, nodes>>
       /\ UNCHANGED pureVars

----------------------------------------------------------------------------
(* The rendering phase: the callback of pages.forEach *)

\* YAML.stringify of a mapping whose only key is title, a plain scalar
YAMLstringify(frontmatter) ==
    <<"t", "i", "t", "l", "e", ":", " ">> \o frontmatter.title \o <<"\n">>

\* the markdown of the node, with the front matter when it is asked for;
\* the properties of a record that reaches this point are empty
markdownString(title, properties, markdown) ==
    IF options.propsToFrontmatter
    THEN <<"-", "-", "-", "\n">> \o YAMLstringify([title |-> title])
         \o <<"\n", "-", "-", "-", "\n", "\n">> \o markdown
    ELSE markdown

\* the callback of forEach for the next page: a ReferenceError raised by
\* getNotionPageProperties ends loadSource; otherwise the node is added
RenderPage ==
    /\ main = "forEach"
    /\ Len(nodes) < Len(pages)
    /\ LET page == pages[Len(nodes) + 1]
           title == getNotionPageTitle(page)
           properties == getNotionPageProperties(page)
           markdown == notionBlockToMarkdown(page, options.lowerTitleLevel, DefaultDepth)
       IN IF properties.threw
          THEN /\ main' = "crashed"
               /\ nodes' = nodes
          ELSE /\ main' = main
               /\ nodes' = Append(nodes,
                    [id |-> <<options.notionNodeType, page.id>>,
                     title |-> title,
                     properties |-> properties.value,
                     archived |-> page.archived,
                     createdAt |-> page.created_time,
                     updatedAt |-> page.last_edited_time,
                     markdownString |-> markdownString(title, properties.value, markdown),
                     raw |-> page,
                     json |-> <<"JSON.stringify", page>>])
    /\ UNCHANGED <<frames, inflight, log, nextId, fails, pages>>
    /\ UNCHANGED pureVars

\* forEach has visited every page: loadSource is over
Finish ==
    /\ main = "forEach"
    /\ Len(nodes) = Len(pages)
    /\ main' = "done"
    /\ UNCHANGED <<frames, inflight, log, nextId, fails, pages, nodes>>
    /\ UNCHANGED pureVars

Next ==
    \/ LoadSource
    \/ \E f \in 1..Len(frames) : Request(f)
    \/ \E f \in 1..Len(frames) : Respond(f)
    \/ \E f \in 1..Len(frames) : Fail(f)
    \/ \E f \in 1..Len(frames) : ForStep(f)
    \/ \E f \in 1..Len(frames) : ForEnd(f)
    \/ \E f \in 1..Len(frames) : ReturnBlocks(f)
    \/ \E f \in 1..Len(frames) : ReturnPages(f)
    \/ RenderPage
    \/ Finish

Spec == Init /\ [][Next]_vars

----------------------------------------------------------------------------
(* Claims about the rendering functions, checked under SpecPure *)

\* x between pre and post when the flag is on, x itself when it is off
wrapIf(on, pre, x, post) == IF on THEN pre \o x \o post ELSE x

\* the wrappers of bold, italic, code, strikethrough, underline, color and
\* link, each enclosing the ones before it, around the content x
styled(d, x) ==
    LET b == wrapIf(d.bold, <<"*", "*">>, x, <<"*", "*">>)
        i == wrapIf(d.italic, <<"_">>, b, <<"_">>)
        c == wrapIf(d.code, <<Backtick>>, i, <<Backtick>>)
        s == wrapIf(d.strikethrough, <<"~", "~">>, c, <<"~", "~">>)
        u == wrapIf(d.underline, <<"<", "u", ">">>, s, <<"<", "/", "u", ">">>)
        k == wrapIf(d.color # <<"d", "e", "f", "a", "u", "l", "t">>,
                    <<"<", "s", "p", "a", "n", " ", "n", "o", "t", "i", "o", "n", "-",
                      "c", "o", "l", "o", "r", "=", "\"">> \o d.color \o <<"\"", ">">>,
                    u, <<"<", "/", "s", "p", "a", "n", ">">>)
    IN wrapIf("link" \in DOMAIN d /\ d.link.kind # "null",
              <<"[">>, k, <<"]", "(">> \o (IF "link" \in DOMAIN d THEN d.link.url ELSE <<>>)
                          \o <<")">>)

\* only bold and an object link are set
OnlyBoldAndLink(d) ==
    /\ d.bold /\ ~d.italic /\ ~d.code /\ ~d.strikethrough /\ ~d.underline
    /\ d.color = <<"d", "e", "f", "a", "u", "l", "t">>
    /\ d.link = [kind |-> "object", url |-> <<"u">>]
    /\ "equation" \notin DOMAIN d

\* C5: for every combination of style flags, stylize yields the content
\* wrapped by bold, italic, code, strikethrough, underline, color, link and
\* equation in that order, a later wrapper enclosing the earlier ones and an
\* inactive one changing nothing; content x with bold and link {url: u}
\* yields [**x**](u) and not **[x](u)**.
C5_StylizeOrder ==
    (fn = "stylize" /\ done) =>
        /\ ret = wrapIf("equation" \in DOMAIN arg, <<"$">>, styled(arg, arg.content), <<"$">>)
        /\ OnlyBoldAndLink(arg) =>
            /\ ret = <<"[", "*", "*", "x", "*", "*", "]", "(", "u", ")">>
            /\ ret # <<"*", "*", "[", "x", "]", "(", "u", ")", "*", "*">>

\* stylize has been applied to content x with only bold and a link {url: u}
C5_Witness ==
    /\ fn = "stylize" /\ done /\ OnlyBoldAndLink(arg)
    /\ ret = <<"[", "*", "*", "x", "*", "*", "]", "(", "u", ")">>

\* blockToString has been applied to a single span of type equation
EquationRendered == fn = "blockToString" /\ done /\ Len(arg) = 1 /\ arg[1].type = "equation"

\* the style flags of a span with its link, if it has a text object
styleOf(span) ==
    IF "text" \in DOMAIN span
    THEN spread([link |-> span.text.link], span.annotations)
    ELSE span.annotations

\* no style is set on the span
Unstyled(span) ==
    /\ span.annotations = Plain
    /\ "text" \in DOMAIN span => span.text.link.kind = "null"

\* C6 as stated: a span of type equation renders as exactly $expr$ whatever
\* its other style flags are.
C6_EquationExact ==
    EquationRendered => ret = <<"$">> \o arg[1].equation.expression \o <<"$">>

\* C6 as amended: a span of type equation renders as $s$, where s is the
\* expression wrapped by the wrappers of the style flags set on the span;
\* it is exactly $expr$ when and only when no style flag is set.
C6_EquationEnclosesStyles ==
    EquationRendered =>
        /\ ret = <<"$">> \o styled(styleOf(arg[1]), arg[1].equation.expression) \o <<"$">>
        /\ Unstyled(arg[1]) <=> ret = <<"$">> \o arg[1].equation.expression \o <<"$">>

\* a bold span of type equation has been rendered, as $**e**$
C6_Witness ==
    /\ EquationRendered
    /\ arg[1].annotations = [Plain EXCEPT !.bold = TRUE]
    /\ "text" \notin DOMAIN arg[1]
    /\ ret = <<"$", "*", "*", "e", "*", "*", "$">>

RECURSIVE OnlyParagraphs(_)
\* every block below this one is a paragraph
OnlyParagraphs(block) ==
    "children" \in DOMAIN block =>
        \A i \in 1..Len(block.children) :
            /\ block.children[i].type = "paragraph"
            /\ OnlyParagraphs(block.children[i])

\* the paragraph is a code-fence line by its own first span
ownFence(paragraph) ==
    /\ Len(paragraph.paragraph.text) > 0
    /\ startsWith(paragraph.paragraph.text[1].plain_text, <<Backtick, Backtick, Backtick>>)

RECURSIVE paragraphsAsClaimed(_, _, _, _)
\* the rendering that C7 describes of the first n children of the block,
\* all of them paragraphs
paragraphsAsClaimed(block, lowerTitleLevel, depth, n) ==
    IF n = 0 THEN <<>>
    ELSE LET childBlock == block.children[n]
             p == blockToString(childBlock.paragraph.text)
         IN paragraphsAsClaimed(block, lowerTitleLevel, depth, n - 1)
            \o p
            \o (IF (startsWith(p, <<"|">>) /\ endsWith(p, <<"|">>)) \/ ownFence(childBlock)
                THEN <<"\n">> ELSE <<"\n", "\n">>)
            \o (IF childBlock.has_children
                THEN indentation(depth)
                     \o paragraphsAsClaimed(childBlock, lowerTitleLevel, depth + 2,
                                            Len(childBlock.children))
                     \o <<"\n">>
                ELSE <<>>)

\* C7: a paragraph at any nesting level is followed by one newline when it
\* is a table row or when its own first span starts with three backticks,
\* by two newlines otherwise, and then by its rendered children.
C7_ParagraphNewlines ==
    (fn = "notionBlockToMarkdown" /\ done /\ OnlyParagraphs(arg)) =>
        ret = paragraphsAsClaimed(arg, options.lowerTitleLevel, DefaultDepth, Len(arg.children))

RECURSIVE nestedAt(_, _, _, _, _)
\* the rendering of the first n children of the block in which the children
\* of a block rendered at depth d are preceded by width * d spaces,
\* rendered at depth d + 2, and followed by one newline
nestedAt(block, lowerTitleLevel, d, width, n) ==
    IF n = 0 THEN <<>>
    ELSE LET childBlock == block.children[n]
         IN emitBlock(nestedAt(block, lowerTitleLevel, d, width, n - 1),
                      block, childBlock, lowerTitleLevel,
                      IF childBlock.has_children
                      THEN repeat(<<" ">>, width * d)
                           \o nestedAt(childBlock, lowerTitleLevel, d + 2, width,
                                       Len(childBlock.children))
                           \o <<"\n">>
                      ELSE <<>>)

\* C8 as stated: the depth counter starts at 0 and grows by 2 per level, and
\* the nested-children string of a call with depth counter d is d spaces,
\* the rendering of the children at depth d + 2, and one newline.
C8_IndentDepthSpaces ==
    (fn = "notionBlockToMarkdown" /\ done) => ret = nestedAt(arg, options.lowerTitleLevel, 0, 1, Len(arg.children))

\* C8 as amended: the depth counter starts at 0 and grows by 2 per level, and
\* the nested-children string of a call with depth counter d is 2 * d
\* spaces, the rendering of the children at depth d + 2, and one newline.
C8_IndentTwiceDepth ==
    (fn = "notionBlockToMarkdown" /\ done) => ret = nestedAt(arg, options.lowerTitleLevel, 0, 2, Len(arg.children))

\* a record has been rendered whose first block has a child with children,
\* which are rendered by the call with depth counter 2
C8_Witness ==
    /\ fn = "notionBlockToMarkdown" /\ done
    /\ arg.children[1].has_children
    /\ arg.children[1].children[1].has_children
    /\ Len(arg.children[1].children[1].children) > 0
    /\ arg.children[1].children[1].type = "bulleted_list_item"
    /\ \E i \in 1..(Len(ret) - 3) : SubSeq(ret, i, i + 3) = <<" ", " ", " ", " ">>

\* C9: for every property map, rich_text entries included, the result is
\* returned without raising; its keys are the input keys that are not
\* title-typed and each entry is {id, key, value, type}, the value of a
\* rich_text entry being the blockToString rendering of its spans.
C9_PropertiesTotal ==
    (fn = "getNotionPageProperties" /\ done) =>
        /\ ~ret.threw
        /\ DOMAIN ret.value = {k \in DOMAIN arg.properties : arg.properties[k].type # "title"}
        /\ \A k \in DOMAIN ret.value :
            LET prop == arg.properties[k]
            IN ret.value[k] =
                [id |-> prop.id, key |-> k, type |-> prop.type,
                 value |-> IF prop.type = "rich_text"
                           THEN blockToString(prop.rich_text)
                           ELSE prop[prop.type]]

----------------------------------------------------------------------------
(* Claims about the fetch phase, checked under Spec *)

Frames == 1..Len(frames)

\* the positions in the log of the events of this kind of frame f
at(f, kind) == {j \in 1..Len(log) : log[j].frame = f /\ log[j].ev = kind}

\* the events of this kind of frame f, in order
eventsOf(f, kind) == SelectSeq(log, LAMBDA e : e.frame = f /\ e.ev = kind)

RECURSIVE itemsOf(_)
\* the items of a sequence of responses, page after page
itemsOf(oks) == IF oks = <<>> THEN <<>> ELSE Head(oks).items \o itemsOf(Tail(oks))

\* the frame has returned
Returned(f) == frames[f].pc = "returned"

\* the last request of frame f before position j
lastRequestBefore(f, j) ==
    log[CHOOSE k \in at(f, "req") : k < j /\ \A m \in at(f, "req") : m < j => m <= k]

\* the requests of frame f after position j
requestsAfter(f, j) == {k \in at(f, "req") : k > j}

\* the first request of frame f after position j, when there is one
firstRequestAfter(f, j) ==
    log[CHOOSE k \in requestsAfter(f, j) : \A m \in requestsAfter(f, j) : m >= k]

Plain2(f) ==
    /\ frames[f].fn = "getBlocks"
    /\ at(f, "fail") = {}
    /\ \A j \in at(f, "ok") : log[j].parents = {}

\* C2: when the source answers has_more = true for N pages and then
\* has_more = false, without failure and without a block with children, a
\* getBlocks call ends after exactly N + 1 requests, the first without a
\* cursor and each later one with the next_cursor of the response before
\* it, and returns the items of the N + 1 pages in page order and in the
\* order within each page.
C2_Pagination ==
    \A f \in Frames : (Plain2(f) /\ Returned(f)) =>
        LET oks == eventsOf(f, "ok")
            reqs == eventsOf(f, "req")
            N == Cardinality({k \in 1..Len(oks) : oks[k].has_more})
        IN /\ Len(reqs) = N + 1
           /\ Len(oks) = N + 1
           /\ \A k \in 1..N : oks[k].has_more
           /\ ~oks[N + 1].has_more
           /\ reqs[1].cursor = 0
           /\ \A k \in 1..(N + 1) : reqs[k].id = frames[f].id
           /\ \A k \in 1..N : reqs[k + 1].cursor = oks[k].next_cursor
           /\ ids(frames[f].acc) = itemsOf(oks)
           /\ \A k \in at(f, "ret") : log[k].value = itemsOf(oks)

\* a getBlocks call has returned after 3 requests, with items of page 1 and of page 3
C2_Witness ==
    \E f \in Frames :
        /\ Plain2(f) /\ Returned(f)
        /\ Len(eventsOf(f, "req")) = 3
        /\ eventsOf(f, "ok")[1].items # <<>>
        /\ eventsOf(f, "ok")[3].items # <<>>
        /\ Len(frames[f].acc) >= 2

\* rendering has started
Rendering == main \in {"forEach", "done", "crashed"}

\* the children of the item are the value of a getBlocks call that has returned
FetchedBy(item) ==
    /\ "children" \in DOMAIN item
    /\ \E g \in Frames :
        /\ frames[g].fn = "getBlocks" /\ frames[g].id = item.id /\ Returned(g)
        /\ frames[g].acc = item.children

RECURSIVE FullyFetched(_)
\* every block with children below the item has its children attached
FullyFetched(item) ==
    \A k \in 1..Len(item.children) :
        item.children[k].has_children =>
            /\ FetchedBy(item.children[k])
            /\ FullyFetched(item.children[k])

\* C3: no record is rendered before getPages has returned, and then every
\* block with has_children = true below a returned page has the children
\* list of a completed getBlocks call attached, so that the emitter meets
\* no block whose children are pending or absent.
C3_FetchBeforeRender ==
    /\ ~Rendering => nodes = <<>> /\ pages = <<>>
    /\ Rendering =>
        /\ inflight = {}
        /\ \A f \in Frames : Returned(f)
        /\ frames[1].fn = "getPages" /\ pages = frames[1].acc
        /\ \A k \in 1..Len(pages) : FetchedBy(pages[k]) /\ FullyFetched(pages[k])
        /\ \A k \in 1..Len(nodes) : nodes[k].raw = pages[k]

\* a record has been rendered and registered whose first block has children
C3_Witness ==
    /\ main = "done"
    /\ Len(nodes) >= 1
    /\ Len(pages[1].children) >= 1
    /\ pages[1].children[1].has_children
    /\ Len(pages[1].children[1].children) >= 1

\* the item needs a getBlocks call: every record, and a block with children
needsCall(f, item) == frames[f].fn = "getPages" \/ item.has_children

\* the calls of frame f that have not returned
activeCalls(f) == {g \in Frames : frames[g].parent = f /\ ~Returned(g)}

\* C4: at most one request is outstanding at any time; a caller is
\* suspended while a getBlocks call it made runs, so the children of a
\* block are fetched to completion before the children of the next sibling,
\* the next page of the listing or the blocks of the next record are
\* requested.
C4_NoFanOut ==
    /\ Cardinality(inflight) <= 1
    /\ Cardinality({f \in Frames : frames[f].pc \in {"while", "fetching", "for"}}) <= 1
    /\ \A r \in inflight : \A g \in Frames \ {r.frame} : frames[g].pc \in {"awaiting", "returned"}
    /\ \A f \in Frames :
        /\ Cardinality(activeCalls(f)) <= 1
        /\ \A g \in activeCalls(f) :
            /\ frames[f].pc = "awaiting"
            /\ frames[g].id = frames[f].result.results[frames[f].i].id
        /\ \A k \in 1..Len(frames[f].result.results) :
            (k < frames[f].i \/ frames[f].pc \in {"while", "fetching", "returned"}) =>
                (needsCall(f, frames[f].result.results[k]) =>
                    FetchedBy(frames[f].result.results[k]))

\* the children of the second of two sibling blocks with children are being
\* requested, those of the first being attached
C4_Witness ==
    /\ inflight # {}
    /\ \E f \in Frames :
        /\ frames[f].fn = "getBlocks" /\ frames[f].pc = "awaiting" /\ frames[f].i = 2
        /\ frames[f].result.results[1].has_children
        /\ frames[f].result.results[2].has_children
        /\ "children" \in DOMAIN frames[f].result.results[1]
        /\ \E r \in inflight : r.id = frames[f].result.results[2].id

\* the step is the catch clause of frame f
Catches(f) ==
    /\ f \in Frames
    /\ frames[f].pc = "fetching"
    /\ Len(log') = Len(log) + 1
    /\ Last(log').ev = "fail"
    /\ Last(log').frame = f

\* C10: an iteration of getBlocks or getPages whose request fails leaves the
\* accumulated list, the start cursor and the has-more flag as they were,
\* so that the next iteration sends the same request with the same cursor;
\* a call returns only after a response that was processed has set
\* has-more to false, never after a failure alone.
C10_FailedIterationFrame ==
    /\ [][\A f \in Frames : Catches(f) =>
            /\ frames'[f].acc = frames[f].acc
            /\ frames'[f].startCursor = frames[f].startCursor
            /\ frames'[f].hasMore = frames[f].hasMore
            /\ frames'[f].hasMore
            /\ frames'[f].pc = "while"]_vars
    /\ [](\A f \in Frames :
            /\ \A j \in at(f, "fail") :
                requestsAfter(f, j) # {} =>
                    /\ firstRequestAfter(f, j).cursor = lastRequestBefore(f, j).cursor
                    /\ firstRequestAfter(f, j).id = lastRequestBefore(f, j).id
            /\ \A j \in at(f, "ret") :
                \E k \in at(f, "ok") :
                    /\ k < j
                    /\ ~log[k].has_more
                    /\ \A m \in at(f, "fail") \cup at(f, "ok") \cup at(f, "req") : m <= k \/ m > j)

\* a request of getPages failed, was sent again with the same cursor, and
\* the call has returned
C10_Witness ==
    \E f \in Frames :
        /\ frames[f].fn = "getPages" /\ Returned(f)
        /\ \E j \in at(f, "fail") :
            /\ requestsAfter(f, j) # {}
            /\ firstRequestAfter(f, j).cursor = lastRequestBefore(f, j).cursor
            /\ firstRequestAfter(f, j).cursor = 2

====
